---- MODULE Spec2Model ----
(***************************************************************************)
(* ValidateMe: the visual regression comparator                            *)
(* (src/src/core/VisualRegression.js, class VisualRegressionTester).       *)
(*                                                                         *)
(* State: the baseline directory, the diff directory, and one              *)
(* compareScreenshots call (its input list, its loop position and the      *)
(* results object it builds), the report file, and one cleanupOldDiffs     *)
(* call.  The capture files are a fixed population:                        *)
(* for every content in Content and every name in Filenames there is one   *)
(* capture file, at the path [content, filename], holding that content.    *)
(***************************************************************************)
EXTENDS Integers, Sequences, FiniteSets, TLC

\* ------------------------------------------------------------------ bounds
\* longest input list handed to compareScreenshots
MaxShots == 2

\* latest clock value and modification time
MaxTime == 2

\* ------------------------------------------------------ files and contents
Filenames == {"a.png", "b.png"}
RunIds == {"p1"}

\* A file content: a PNG of w x h pixels whose first k pixels are lit, or
\* bytes that are not a PNG ("junk"), or no file at all ("none").
Png(w, h, k) == [kind |-> "png", w |-> w, h |-> h, k |-> k]
Junk == [kind |-> "junk", w |-> 0, h |-> 0, k |-> 0]
NoFile == [kind |-> "none", w |-> 0, h |-> 0, k |-> 0]

ImgA == Png(5, 8, 0)
ImgB == Png(8, 5, 0)
ImgC == Png(5, 8, 2)

Content == {ImgA, ImgB, ImgC, Junk}

\* the capture files: path [content, filename] holds `content`
Captures == [content : Content, filename : Filenames]

\* path.basename(screenshot)
basename(screenshot) == screenshot.filename

\* the bytes read from a capture path
ReadCapture(screenshot) == screenshot.content

\* path.join(this.diffDir, `${runId}-${filename}`)
DiffPath(rid, filename) == <<rid, filename>>

\* the entries the diff directory can hold: the diff images of this run
\* and one left by another run
DiffEntries ==
  {DiffPath(rid, f) : rid \in RunIds, f \in Filenames}
    \cup {DiffPath("p0", "a.png")}

\* clock values and modification times, in milliseconds
Times == 0..MaxTime

\* --------------------------------------------------------- the fs binding
\* `fs` is the default export of 'fs/promises'.  That module has the
\* promise API only; createReadStream and createWriteStream belong to 'fs'
\* and are undefined on it, so calling them throws a TypeError.
FsCallbackApi ==
  {"access", "copyFile", "mkdir", "readdir", "stat", "unlink", "writeFile",
   "createReadStream", "createWriteStream"}

FsPromisesApi ==
  {"access", "copyFile", "mkdir", "readdir", "stat", "unlink", "writeFile"}

\* a settled promise: resolved with a value, or rejected with a message
Resolved(v) == [ok |-> TRUE, value |-> v, error |-> "none"]
Rejected(msg) == [ok |-> FALSE, value |-> NoFile, error |-> msg]

\* loadPNG(imagePath): the executor calls fs.createReadStream first; a
\* throw inside the executor rejects the promise.  With a stream, pngjs
\* emits 'parsed' for a PNG and 'error' for anything else.
loadPNG(bytes) ==
  IF "createReadStream" \notin FsPromisesApi
    THEN Rejected("fs.createReadStream is not a function")
    ELSE IF bytes.kind = "png"
      THEN Resolved(bytes)
      ELSE Rejected("Invalid file signature")

\* savePNG(image, outputPath): fs.createWriteStream, same binding
savePNG ==
  IF "createWriteStream" \notin FsPromisesApi
    THEN [ok |-> FALSE, error |-> "fs.createWriteStream is not a function"]
    ELSE [ok |-> TRUE, error |-> "none"]

\* ------------------------------------------------------------- pixelmatch
\* length of the RGBA buffer of an image
DataLen(img) == img.w * img.h * 4

Abs(n) == IF n < 0 THEN -n ELSE n

\* pixelmatch(img1.data, img2.data, diff.data, width, height, options):
\* throws when the buffers differ in length or do not have width*height*4
\* bytes; otherwise the number of pixels that differ.  The buffers are
\* compared position by position, whatever the images' own dimensions.
pixelmatch(img1, img2, width, height) ==
  IF DataLen(img1) # DataLen(img2)
    THEN [ok |-> FALSE, n |-> 0, error |-> "Image sizes do not match."]
    ELSE IF DataLen(img1) # width * height * 4
      THEN [ok |-> FALSE, n |-> 0,
            error |-> "Image data size does not match width/height."]
      ELSE [ok |-> TRUE, n |-> Abs(img1.k - img2.k), error |-> "none"]

\* ------------------------------------------------------------ percentages
\* a percentage is kept as the exact fraction num/den
Pct(num, den) == [num |-> num, den |-> den]
PctZero == Pct(0, 1)
PctHundred == Pct(100, 1)
PctEq(p, q) == p.num * q.den = q.num * p.den
PctLt(p, q) == p.num * q.den < q.num * p.den

\* the pass threshold, in percent
PassThreshold == 5

\* const passed = diffPercentage < 5
IsPassed(diffPercentage) == PctLt(diffPercentage, Pct(PassThreshold, 1))

\* compareImages(currentPath, baselinePath, diffPath): the value it
\* resolves with, or the error it rejects with; wrote says whether the
\* diff image reached the disk.
CmpFail(msg) ==
  [ok |-> FALSE, passed |-> FALSE, diffPixels |-> 0,
   diffPercentage |-> PctHundred, wrote |-> FALSE, error |-> msg]

compareImages(currentBytes, baselineBytes) ==
  LET currentImage == loadPNG(currentBytes)
      baselineImage == loadPNG(baselineBytes)
  IN IF ~currentImage.ok THEN CmpFail(currentImage.error)
     ELSE IF ~baselineImage.ok THEN CmpFail(baselineImage.error)
     ELSE
       LET width == currentImage.value.w
           height == currentImage.value.h
           pm == pixelmatch(currentImage.value, baselineImage.value,
                            width, height)
       IN IF ~pm.ok THEN CmpFail(pm.error)
          ELSE
            LET diffPercentage == Pct(pm.n * 100, width * height)
                passed == IsPassed(diffPercentage)
            IN IF ~passed /\ ~savePNG.ok THEN CmpFail(savePNG.error)
               ELSE [ok |-> TRUE, passed |-> passed, diffPixels |-> pm.n,
                     diffPercentage |-> diffPercentage,
                     wrote |-> ~passed, error |-> "none"]

\* ------------------------------------------------------------------ state
VARIABLES
  baselineDir,        \* filename -> content of the baseline (NoFile: absent)
  diffDir,            \* the diff paths that hold a diff image
  pc,                 \* "idle", "running" (inside the for loop), "done"
  currentScreenshots, \* the input list of the call
  runId,              \* the run id of the call
  idx,                \* the loop position: next element to process
  results,            \* the results object of the call
  seen,               \* per processed element: the baseline it met
  thrown,             \* the error the last operation raised to its caller
  startDir,           \* the baseline directory when the call started
  report,             \* visual-regression-report.md (NoReport: absent)
  mtime,              \* diff entry -> its modification time
  cleanup,            \* the cleanupOldDiffs call
  lastOp,             \* the method called last, and what it met
  listed,             \* what getBaselineList returned last
  race,               \* two compareScreenshots runs on one baseline store
  runner              \* the TestRunner of the CLI process, run after run

vars == <<baselineDir, diffDir, pc, currentScreenshots, runId, idx,
          results, seen, thrown, startDir, report, mtime, cleanup, lastOp,
          listed, race, runner>>

\* the state outside one VisualRegressionTester call sequence
auxVars == <<listed, race, runner>>

\* a call of method op; for deleteBaseline, the filename and whether its
\* baseline existed
Op(op) == [op |-> op, filename |-> "", existed |-> FALSE]

\* the state of cleanupOldDiffs
cleanupVars == <<mtime, cleanup>>

NoError == "none"

EmptyResults ==
  [total |-> 0, passed |-> 0, failed |-> 0, new |-> 0, comparisons |-> <<>>]

\* an empty baseline directory
EmptyDir == [f \in Filenames |-> NoFile]

\* no report file was written
NoReport == [written |-> FALSE, total |-> 0, passed |-> 0, failed |-> 0,
             new |-> 0, rows |-> <<>>, paragraphs |-> {}]

\* maxAge of cleanupOldDiffs: a number of milliseconds, or Infinity
MaxAge(ms) == [inf |-> FALSE, ms |-> ms]
Infinity == [inf |-> TRUE, ms |-> 0]

\* no cleanupOldDiffs call is in progress
CleanupIdle ==
  [pc |-> "idle", files |-> <<>>, i |-> 1, now |-> 0, maxAge |-> MaxAge(0),
   dir0 |-> {}, caught |-> FALSE]

\* getBaselineList was not called
NoList == [called |-> FALSE, files |-> {}]

\* no concurrent runs
NoRace == [started |-> FALSE]

\* no TestRunner was constructed
NoRunner == [run |-> 0]

\* constructor: the directories are empty and no call was made
Init ==
  /\ listed = NoList
  /\ race = NoRace
  /\ runner = NoRunner
  /\ startDir = EmptyDir
  /\ report = NoReport
  /\ mtime = [e \in DiffEntries |-> 0]
  /\ cleanup = CleanupIdle
  /\ lastOp = Op("constructor")
  /\ baselineDir = [f \in Filenames |-> NoFile]
  /\ diffDir = {}
  /\ pc = "idle"
  /\ currentScreenshots = <<>>
  /\ runId = "p1"
  /\ idx = 1
  /\ results = EmptyResults
  /\ seen = <<>>
  /\ thrown = NoError

fileExistsNever(dir, filename) == FALSE

\* fileExists(baselinePath)
fileExists(dir, filename) == dir[filename] # NoFile

\* the outcome records pushed on results.comparisons
Outcome(screenshot, status, diff, diffPercentage, error) ==
  [filename |-> basename(screenshot), status |-> status,
   baseline |-> basename(screenshot), current |-> screenshot,
   diff |-> diff, diffPercentage |-> diffPercentage, error |-> error]

NoDiff == <<>>

\* lists of at most n capture paths
ShotLists(n) == UNION {[1..m -> Captures] : m \in 0..n}

\* ------------------------------------------------- compareScreenshots
CounterOfSeparateError(status) ==
  CASE status = "new" -> "new"
    [] status = "passed" -> "passed"
    [] status = "failed" -> "failed"
    [] status = "error" -> "error"

\* the counter an outcome status increments: the catch block does
\* results.failed++ for an 'error' outcome
CounterOf(status) ==
  CASE status = "new" -> "new"
    [] status = "passed" -> "passed"
    [] status = "failed" -> "failed"
    [] status = "error" -> "failed"

copyFileAll(dir, screenshot, filename) ==
  [f \in Filenames |-> ReadCapture(screenshot)]

\* fs.copyFile(screenshot, baselinePath): the directory after the copy
copyFile(dir, screenshot, filename) ==
  [dir EXCEPT ![filename] = ReadCapture(screenshot)]

CatchesImageErrorNot == FALSE

\* the per-image try/catch of the for loop is in place
CatchesImageError == TRUE

\* what one pass through the body of the for loop yields: the outcome
\* pushed, the baseline directory afterwards, whether a diff image was
\* written, and whether the catch block ran
Pass(outcome, dir, wrote, caught) ==
  [outcome |-> outcome, dir |-> dir, wrote |-> wrote, caught |-> caught]

\* catch (error): status 'error', diff null, diffPercentage 100, message
Caught(dir, screenshot, msg) ==
  Pass(Outcome(screenshot, "error", NoDiff, PctHundred, msg),
       dir, FALSE, TRUE)

AdoptBranchNoCopy(dir, screenshot, copyOk) ==
  IF copyOk
    THEN Pass(Outcome(screenshot, "new", NoDiff, PctZero, NoError),
              dir, FALSE, FALSE)
    ELSE Caught(dir, screenshot, "copyFile failed")

\* no baseline: copy the capture to the baseline path, status 'new';
\* copyOk says whether fs.copyFile succeeds
AdoptBranch(dir, screenshot, copyOk) ==
  IF copyOk
    THEN Pass(Outcome(screenshot, "new", NoDiff, PctZero, NoError),
              copyFile(dir, screenshot, basename(screenshot)),
              FALSE, FALSE)
    ELSE Caught(dir, screenshot, "copyFile failed")

CompareBranchPromote(dir, screenshot, rid) ==
  LET filename == basename(screenshot)
      comparison == compareImages(ReadCapture(screenshot), dir[filename])
      promoted == copyFile(dir, screenshot, filename)
  IN IF comparison.ok
       THEN Pass(Outcome(screenshot,
                         IF comparison.passed THEN "passed" ELSE "failed",
                         IF comparison.passed THEN NoDiff
                                              ELSE DiffPath(rid, filename),
                         comparison.diffPercentage, NoError),
                 IF comparison.passed THEN dir ELSE promoted,
                 comparison.wrote, FALSE)
       ELSE Caught(promoted, screenshot, comparison.error)

CompareBranchErrorDiff(dir, screenshot, rid) ==
  LET filename == basename(screenshot)
      comparison == compareImages(ReadCapture(screenshot), dir[filename])
  IN IF comparison.ok
       THEN Pass(Outcome(screenshot,
                         IF comparison.passed THEN "passed" ELSE "failed",
                         IF comparison.passed THEN NoDiff
                                              ELSE DiffPath(rid, filename),
                         comparison.diffPercentage, NoError),
                 dir, comparison.wrote, FALSE)
       ELSE Pass(Outcome(screenshot, "error", DiffPath(rid, filename),
                         PctHundred, comparison.error),
                 dir, TRUE, TRUE)

\* a baseline exists: compareImages, status 'passed' or 'failed'; the
\* baseline directory is not written
CompareBranch(dir, screenshot, rid) ==
  LET filename == basename(screenshot)
      comparison == compareImages(ReadCapture(screenshot), dir[filename])
  IN IF comparison.ok
       THEN Pass(Outcome(screenshot,
                         IF comparison.passed THEN "passed" ELSE "failed",
                         IF comparison.passed THEN NoDiff
                                              ELSE DiffPath(rid, filename),
                         comparison.diffPercentage, NoError),
                 dir, comparison.wrote, FALSE)
       ELSE Caught(dir, screenshot, comparison.error)

\* the body of the for loop for `screenshot`
LoopBody(dir, screenshot, rid, copyOk) ==
  IF ~fileExists(dir, basename(screenshot))
    THEN AdoptBranch(dir, screenshot, copyOk)
    ELSE CompareBranch(dir, screenshot, rid)

CountTotalInTry(res, outcome) ==
  LET c == CounterOf(outcome.status)
  IN [total |-> res.total + (IF outcome.status = "error" THEN 0 ELSE 1),
      passed |-> res.passed + (IF c = "passed" THEN 1 ELSE 0),
      failed |-> res.failed + (IF c = "failed" THEN 1 ELSE 0),
      new |-> res.new + (IF c = "new" THEN 1 ELSE 0),
      comparisons |-> Append(res.comparisons, outcome)]

CountPrepend(res, outcome) ==
  LET c == CounterOf(outcome.status)
  IN [total |-> res.total + 1,
      passed |-> res.passed + (IF c = "passed" THEN 1 ELSE 0),
      failed |-> res.failed + (IF c = "failed" THEN 1 ELSE 0),
      new |-> res.new + (IF c = "new" THEN 1 ELSE 0),
      comparisons |-> <<outcome>> \o res.comparisons]

\* results after the counters and the push of one pass
Count(res, outcome) ==
  LET c == CounterOf(outcome.status)
  IN [total |-> res.total + 1,
      passed |-> res.passed + (IF c = "passed" THEN 1 ELSE 0),
      failed |-> res.failed + (IF c = "failed" THEN 1 ELSE 0),
      new |-> res.new + (IF c = "new" THEN 1 ELSE 0),
      comparisons |-> Append(res.comparisons, outcome)]

\* compareScreenshots(currentScreenshots, runId) is called: results is
\* initialised and the loop starts
Call(shots, rid) ==
  /\ pc = "idle"
  /\ pc' = "running"
  /\ currentScreenshots' = shots
  /\ runId' = rid
  /\ idx' = 1
  /\ results' = EmptyResults
  /\ seen' = <<>>
  /\ thrown' = NoError
  /\ startDir' = baselineDir
  /\ lastOp' = Op("compareScreenshots")
  /\ UNCHANGED <<auxVars, baselineDir, diffDir, report, cleanupVars>>

\* one iteration of the for loop
ProcessImage(copyOk) ==
  /\ pc = "running"
  /\ idx <= Len(currentScreenshots)
  /\ LET screenshot == currentScreenshots[idx]
         filename == basename(screenshot)
         r == LoopBody(baselineDir, screenshot, runId, copyOk)
     IN /\ seen' = Append(seen, [had |-> baselineDir[filename],
                                 copyOk |-> copyOk])
        /\ IF r.caught /\ ~CatchesImageError
             THEN \* the error leaves compareScreenshots
               /\ pc' = "done"
               /\ thrown' = r.outcome.error
               /\ results' = [results EXCEPT !.total = @ + 1]
               /\ UNCHANGED <<baselineDir, diffDir, idx>>
             ELSE
               /\ results' = Count(results, r.outcome)
               /\ baselineDir' = r.dir
               /\ diffDir' = IF r.wrote
                               THEN diffDir \cup {DiffPath(runId, filename)}
                               ELSE diffDir
               /\ idx' = idx + 1
               /\ UNCHANGED <<pc, thrown>>
  /\ UNCHANGED <<auxVars, currentScreenshots, runId, startDir, report, cleanupVars,
                 lastOp>>

\* the loop is over: return results
Return ==
  /\ pc = "running"
  /\ idx > Len(currentScreenshots)
  /\ pc' = "done"
  /\ UNCHANGED <<auxVars, baselineDir, diffDir, currentScreenshots, runId, idx,
                 results, seen, thrown, startDir, report, cleanupVars,
                 lastOp>>

\* the caller drops the summary of the finished call
Forget ==
  /\ pc' = "idle"
  /\ currentScreenshots' = <<>>
  /\ runId' = "p1"
  /\ idx' = 1
  /\ results' = EmptyResults
  /\ seen' = <<>>
  /\ startDir' = EmptyDir

\* ------------------------------------------ generateVisualRegressionReport
\* the status column
Glyph(status) ==
  CASE status = "passed" -> "check"
    [] status = "failed" -> "cross"
    [] status = "new" -> "camera"
    [] OTHER -> "warning"

\* a table cell: 'N/A', or a value
NA == [na |-> TRUE, value |-> <<>>]
Cell(v) == [na |-> FALSE, value |-> <<v>>]

\* diffPercentage.toFixed(2), as a number of hundredths of a percent
toFixed2(p) == (p.num * 200 + p.den) \div (2 * p.den)

DiffPercentCellAlways(diffPercentage) == Cell(toFixed2(diffPercentage))

\* comparison.diffPercentage ? `${...toFixed(2)}%` : 'N/A' -- 0 is falsy
DiffPercentCell(diffPercentage) ==
  IF diffPercentage.num = 0 THEN NA ELSE Cell(toFixed2(diffPercentage))

\* comparison.diff ? `[Diff](${path.basename(comparison.diff)})` : 'N/A'
DiffLinkCell(diff) == IF diff = NoDiff THEN NA ELSE Cell(diff)

\* one row of the table
Row(comparison) ==
  [filename |-> comparison.filename,
   status |-> Glyph(comparison.status),
   diffPercent |-> DiffPercentCell(comparison.diffPercentage),
   baseline |-> Cell(comparison.baseline),
   current |-> Cell(basename(comparison.current)),
   diff |-> DiffLinkCell(comparison.diff)]

ParagraphsByStatus(res) ==
  {"review" : i \in {j \in 1..Len(res.comparisons) :
                       res.comparisons[j].status = "failed"}}
    \cup (IF res.new > 0 THEN {"new"} ELSE {})
    \cup (IF res.passed > 0 THEN {"match"} ELSE {})

\* the recommendation paragraphs
Paragraphs(res) ==
  (IF res.failed > 0 THEN {"review"} ELSE {})
    \cup (IF res.new > 0 THEN {"new"} ELSE {})
    \cup (IF res.passed > 0 THEN {"match"} ELSE {})

RenderComparable(res) ==
  LET comparable ==
        SelectSeq(res.comparisons, LAMBDA c : c.status # "error")
  IN [written |-> TRUE, total |-> res.total, passed |-> res.passed,
      failed |-> res.failed, new |-> res.new,
      rows |-> [i \in 1..Len(comparable) |-> Row(comparable[i])],
      paragraphs |-> Paragraphs(res)]

\* the report text
Render(res) ==
  [written |-> TRUE, total |-> res.total, passed |-> res.passed,
   failed |-> res.failed, new |-> res.new,
   rows |-> [i \in 1..Len(res.comparisons) |-> Row(res.comparisons[i])],
   paragraphs |-> Paragraphs(res)]

\* generateVisualRegressionReport(comparisonResults, runId) with the
\* summary compareScreenshots returned; writeOk says whether fs.writeFile
\* succeeds.  writeFile is not guarded: a failure is raised to the caller.
generateVisualRegressionReport(writeOk) ==
  /\ pc = "done"
  /\ thrown = NoError
  /\ pc' = "reported"
  /\ IF writeOk
       THEN /\ report' = Render(results)
            /\ thrown' = NoError
       ELSE /\ report' = report
            /\ thrown' = "writeFile failed"
  /\ lastOp' = Op("generateVisualRegressionReport")
  /\ UNCHANGED <<auxVars, baselineDir, diffDir, currentScreenshots, runId, idx,
                 results, seen, startDir, cleanupVars>>

\* setup(): both mkdir calls are unguarded; mkdirOk says whether they
\* succeed ({recursive: true}: existing directories are not an error)
setup(mkdirOk) ==
  /\ pc = "idle"
  /\ thrown' = (IF mkdirOk THEN NoError ELSE "mkdir failed")
  /\ lastOp' = Op("setup")
  /\ UNCHANGED <<auxVars, baselineDir, diffDir, pc, currentScreenshots, runId, idx,
                 results, seen, startDir, report, cleanupVars>>

\* the run is over: the caller lets go of the summary, and the next run
\* constructs a tester on a new reports directory (no report file yet)
Discard ==
  /\ pc \in {"done", "reported"}
  /\ Forget
  /\ report' = NoReport
  /\ UNCHANGED <<auxVars, baselineDir, diffDir, thrown, cleanupVars, lastOp>>

\* updateBaseline(screenshotPath, filename): copyFile is not guarded, a
\* failure is raised to the caller
updateBaseline(screenshot, filename, copyOk) ==
  /\ pc = "idle"
  /\ Forget
  /\ IF copyOk
       THEN /\ baselineDir' = copyFile(baselineDir, screenshot, filename)
            /\ thrown' = NoError
       ELSE /\ baselineDir' = baselineDir
            /\ thrown' = "copyFile failed"
  /\ lastOp' = Op("updateBaseline")
  /\ UNCHANGED <<auxVars, diffDir, report, cleanupVars>>

deleteBaselineThrows(filename) ==
  /\ pc = "idle"
  /\ Forget
  /\ baselineDir' = [baselineDir EXCEPT ![filename] = NoFile]
  /\ thrown' = (IF baselineDir[filename] = NoFile THEN "ENOENT"
                                                 ELSE NoError)
  /\ lastOp' = [op |-> "deleteBaseline", filename |-> filename,
                existed |-> baselineDir[filename] # NoFile]
  /\ UNCHANGED <<auxVars, diffDir, report, cleanupVars>>

\* deleteBaseline(filename): unlink inside try/catch; a missing file is
\* logged, nothing is raised
deleteBaseline(filename) ==
  /\ pc = "idle"
  /\ Forget
  /\ baselineDir' = [baselineDir EXCEPT ![filename] = NoFile]
  /\ thrown' = NoError
  /\ lastOp' = [op |-> "deleteBaseline", filename |-> filename,
                existed |-> baselineDir[filename] # NoFile]
  /\ UNCHANGED <<auxVars, diffDir, report, cleanupVars>>

Next ==
  \/ \E shots \in ShotLists(MaxShots), rid \in RunIds : Call(shots, rid)
  \/ \E copyOk \in BOOLEAN : ProcessImage(copyOk)
  \/ Return
  \/ \E writeOk \in BOOLEAN : generateVisualRegressionReport(writeOk)
  \/ \E mkdirOk \in BOOLEAN : setup(mkdirOk)
  \/ Discard
  \/ \E screenshot \in Captures, filename \in Filenames :
       \E copyOk \in BOOLEAN : updateBaseline(screenshot, filename, copyOk)
  \/ \E filename \in Filenames : deleteBaseline(filename)

Spec == Init /\ [][Next]_vars

\* ------------------------------------------------------ cleanupOldDiffs
\* the maxAge arguments tried: 0, one time unit, Infinity
MaxAges == {MaxAge(0), MaxAge(1), Infinity}

\* the orders in which fs.readdir may list the entries S
Listings(S) ==
  {fl \in [1..Cardinality(S) -> S] :
     \A i, j \in 1..Cardinality(S) : i # j => fl[i] # fl[j]}

IsExpiredInclusive(now, mt, maxAge) == ~maxAge.inf /\ now - mt >= maxAge.ms

\* now - stats.mtime.getTime() > maxAge
IsExpired(now, mt, maxAge) == ~maxAge.inf /\ now - mt > maxAge.ms

CleanupCatchesNot == FALSE

\* the try/catch around the whole scan
CleanupCatches == TRUE

\* the scan ends on a failure: caught and logged
cleanupFail(msg) ==
  /\ cleanup' = [cleanup EXCEPT !.pc = "done", !.caught = CleanupCatches]
  /\ thrown' = (IF CleanupCatches THEN thrown ELSE msg)

\* the state a stand-alone cleanupOldDiffs may find: any diff artifacts
\* with any modification times, beside baselines and a report
InitCleanup ==
  /\ \E populated \in BOOLEAN :
       /\ baselineDir = (IF populated
                           THEN [EmptyDir EXCEPT !["a.png"] = ImgA]
                           ELSE EmptyDir)
       /\ report = (IF populated THEN Render(EmptyResults) ELSE NoReport)
  /\ diffDir \in SUBSET DiffEntries
  /\ mtime \in [DiffEntries -> Times]
  /\ cleanup = CleanupIdle
  /\ listed = NoList
  /\ race = NoRace
  /\ runner = NoRunner
  /\ lastOp = Op("constructor")
  /\ startDir = EmptyDir
  /\ pc = "idle"
  /\ currentScreenshots = <<>>
  /\ runId = "p1"
  /\ idx = 1
  /\ results = EmptyResults
  /\ seen = <<>>
  /\ thrown = NoError

\* cleanupOldDiffs(maxAge) up to the loop: readdir and Date.now().
\* readdirOk is FALSE when the diff directory is missing or unreadable.
cleanupStart(maxAge, now, files, readdirOk) ==
  /\ pc = "idle"
  /\ cleanup.pc \in {"idle", "done"}
  /\ files \in Listings(diffDir)
  /\ lastOp' = Op("cleanupOldDiffs")
  /\ IF readdirOk
       THEN /\ cleanup' = [pc |-> "scanning", files |-> files, i |-> 1,
                           now |-> now, maxAge |-> maxAge,
                           dir0 |-> diffDir, caught |-> FALSE]
            /\ thrown' = NoError
       ELSE /\ cleanup' = [pc |-> "done", files |-> <<>>, i |-> 1,
                           now |-> now, maxAge |-> maxAge,
                           dir0 |-> diffDir, caught |-> CleanupCatches]
            /\ thrown' = (IF CleanupCatches THEN NoError
                                             ELSE "readdir failed")
  /\ UNCHANGED <<auxVars, baselineDir, diffDir, pc, currentScreenshots, runId, idx,
                 results, seen, startDir, report, mtime>>

\* one iteration of the loop over files; io names the call that fails
\* in it, if any
cleanupStep(io) ==
  /\ cleanup.pc = "scanning"
  /\ cleanup.i <= Len(cleanup.files)
  /\ LET file == cleanup.files[cleanup.i]
         expired == IsExpired(cleanup.now, mtime[file], cleanup.maxAge)
     IN  IF io = "stat"
           THEN cleanupFail("stat failed") /\ diffDir' = diffDir
           ELSE IF expired /\ io = "unlink"
             THEN cleanupFail("unlink failed") /\ diffDir' = diffDir
             ELSE /\ diffDir' = (IF expired THEN diffDir \ {file}
                                             ELSE diffDir)
                  /\ cleanup' = [cleanup EXCEPT !.i = cleanup.i + 1]
                  /\ thrown' = thrown
  /\ UNCHANGED <<auxVars, baselineDir, pc, currentScreenshots, runId, idx, results,
                 seen, startDir, report, mtime, lastOp>>

\* the loop is over: cleanupOldDiffs returns
cleanupReturn ==
  /\ cleanup.pc = "scanning"
  /\ cleanup.i > Len(cleanup.files)
  /\ cleanup' = [cleanup EXCEPT !.pc = "done"]
  /\ UNCHANGED <<auxVars, baselineDir, diffDir, pc, currentScreenshots, runId, idx,
                 results, seen, thrown, startDir, report, mtime, lastOp>>

NextCleanup ==
  \/ \E maxAge \in MaxAges, now \in Times, readdirOk \in BOOLEAN :
       \E files \in Listings(diffDir) :
         cleanupStart(maxAge, now, files, readdirOk)
  \/ \E io \in {"ok", "stat", "unlink"} : cleanupStep(io)
  \/ cleanupReturn

SpecCleanup == InitCleanup /\ [][NextCleanup]_vars

\* ------------------------------------------------------ getBaselineList
\* a name a caller can store a baseline under that is not a .png name
OtherName == "c.jpg"

\* the names adoption and updateBaseline are given here
StoreNames == Filenames \cup {OtherName}

\* the extension a filename ends with
extname(file) == IF file = OtherName THEN ".jpg" ELSE ".png"

\* file.endsWith('.png')
endsWithPng(file) == extname(file) = ".png"

\* fs.readdir(this.baselineDir): the names that have a file
readdir(dir) == {f \in DOMAIN dir : dir[f] # NoFile}

\* one capture path per name, with any content
NamedCaptures == [content : Content, filename : StoreNames]

\* an empty baseline directory, for the names of StoreNames
InitBaselines ==
  /\ baselineDir = [f \in StoreNames |-> NoFile]
  /\ listed = NoList
  /\ race = NoRace
  /\ runner = NoRunner
  /\ startDir = EmptyDir
  /\ report = NoReport
  /\ mtime = [e \in DiffEntries |-> 0]
  /\ cleanup = CleanupIdle
  /\ lastOp = Op("constructor")
  /\ diffDir = {}
  /\ pc = "idle"
  /\ currentScreenshots = <<>>
  /\ runId = "p1"
  /\ idx = 1
  /\ results = EmptyResults
  /\ seen = <<>>
  /\ thrown = NoError

\* getBaselineList(): readdir filtered by endsWith('.png'); a readdir
\* failure is caught and gives []
getBaselineList(readdirOk) ==
  /\ pc = "idle"
  /\ listed' = [called |-> TRUE,
                files |-> IF readdirOk
                            THEN {f \in readdir(baselineDir) : endsWithPng(f)}
                            ELSE {}]
  /\ thrown' = NoError
  /\ lastOp' = [op |-> "getBaselineList", filename |-> "",
                existed |-> readdirOk]
  /\ UNCHANGED <<baselineDir, diffDir, pc, currentScreenshots, runId, idx,
                 results, seen, startDir, report, cleanupVars, race, runner>>

NextBaselines ==
  \/ \E screenshot \in NamedCaptures, rid \in RunIds :
       Call(<<screenshot>>, rid)
  \/ \E copyOk \in BOOLEAN : ProcessImage(copyOk)
  \/ Return
  \/ Discard
  \/ \E screenshot \in Captures, filename \in StoreNames :
       \E copyOk \in BOOLEAN : updateBaseline(screenshot, filename, copyOk)
  \/ \E filename \in StoreNames : deleteBaseline(filename)
  \/ \E readdirOk \in BOOLEAN : getBaselineList(readdirOk)

SpecBaselines == InitBaselines /\ [][NextBaselines]_vars

\* ------------------------------------------- two runs, one baseline store
\* the two compareScreenshots calls that share a baseline directory
Runs == {1, 2}

\* a run before its fileExists call for `screenshot`
RunAt(screenshot) ==
  [pc |-> "start", screenshot |-> screenshot, exists |-> FALSE,
   copyOk |-> FALSE, status |-> "none"]

\* the two calls start on the directory of Init, each with one capture
\* path; both paths have the same basename
raceBegin(s1, s2) ==
  /\ race = NoRace
  /\ pc = "idle"
  /\ basename(s1) = basename(s2)
  /\ race' = [started |-> TRUE,
              runs |-> [r \in Runs |-> RunAt(IF r = 1 THEN s1 ELSE s2)],
              order |-> <<>>]
  /\ UNCHANGED <<baselineDir, diffDir, pc, currentScreenshots, runId, idx,
                 results, seen, thrown, startDir, report, cleanupVars,
                 lastOp, listed, runner>>

\* run r: await this.fileExists(baselinePath)
raceCheck(r) ==
  /\ race.started
  /\ race.runs[r].pc = "start"
  /\ race' = [race EXCEPT
       !.runs[r].pc = "checked",
       !.runs[r].exists =
          fileExists(baselineDir, basename(race.runs[r].screenshot))]
  /\ UNCHANGED <<baselineDir, diffDir, pc, currentScreenshots, runId, idx,
                 results, seen, thrown, startDir, report, cleanupVars,
                 lastOp, listed, runner>>

raceActRecheck(r, copyOk) ==
  /\ race.started
  /\ race.runs[r].pc = "checked"
  /\ LET screenshot == race.runs[r].screenshot
         res == LoopBody(baselineDir, screenshot, runId, copyOk)
     IN /\ baselineDir' = res.dir
        /\ race' = [race EXCEPT
             !.runs[r].pc = "done",
             !.runs[r].copyOk = copyOk,
             !.runs[r].status = res.outcome.status,
             !.order = IF res.outcome.status = "new" THEN Append(@, r)
                                                     ELSE @]
  /\ UNCHANGED <<diffDir, pc, currentScreenshots, runId, idx,
                 results, seen, thrown, startDir, report, cleanupVars,
                 lastOp, listed, runner>>

\* run r after its fileExists call returned: the branch it chose, on the
\* directory as it is now
raceAct(r, copyOk) ==
  /\ race.started
  /\ race.runs[r].pc = "checked"
  /\ LET screenshot == race.runs[r].screenshot
         res == IF ~race.runs[r].exists
                  THEN AdoptBranch(baselineDir, screenshot, copyOk)
                  ELSE CompareBranch(baselineDir, screenshot, runId)
     IN /\ baselineDir' = res.dir
        /\ race' = [race EXCEPT
             !.runs[r].pc = "done",
             !.runs[r].copyOk = copyOk,
             !.runs[r].status = res.outcome.status,
             !.order = IF ~race.runs[r].exists /\ copyOk THEN Append(@, r)
                                                         ELSE @]
  /\ UNCHANGED <<diffDir, pc, currentScreenshots, runId, idx,
                 results, seen, thrown, startDir, report, cleanupVars,
                 lastOp, listed, runner>>

NextRace ==
  \/ \E s1, s2 \in Captures : raceBegin(s1, s2)
  \/ \E r \in Runs : raceCheck(r)
  \/ \E r \in Runs, copyOk \in BOOLEAN : raceAct(r, copyOk)

SpecRace == Init /\ [][NextRace]_vars

\* ------------------------------------------------------------ TestRunner
\* the steps of executePersona, and the names their screenshots are given
Journey ==
  <<"navigate", "wait_for_page", "analyze_page", "find_auth",
    "attempt_auth", "execute_task", "final_state">>
ShotNames ==
  <<"01-navigate", "02-page-loaded", "03-page-analysis", "04-auth-search",
    "05-auth-attempt", "06-task-execution", "07-final-state">>

\* the number of steps of the journey that are modelled
NumSteps == 3

\* `${String(this.screenshots.length + 1).padStart(2, '0')}-${name}.png`
ScreenshotName(screenshots, name) == <<Len(screenshots) + 1, name>>

\* the filenames takeScreenshot can produce
RunnerFilenames ==
  {<<n, ShotNames[k]>> : n \in 1..NumSteps, k \in 1..NumSteps}

\* path.join: '..' removes the last segment
RECURSIVE PathJoin(_, _)
PathJoin(p, segs) ==
  IF segs = <<>> THEN p
  ELSE PathJoin(IF Head(segs) = ".." THEN SubSeq(p, 1, Len(p) - 1)
                                     ELSE Append(p, Head(segs)),
                Tail(segs))

\* `${runId}-${this.persona.id}`: generateRunId() is the time of the run
RunDirName(run) == IF run = 1 THEN "t1-p1" ELSE "t2-p1"

\* path.join(process.cwd(), 'reports', `${runId}-${this.persona.id}`)
ReportsDir(run) == PathJoin(<<"cwd">>, <<"reports", RunDirName(run)>>)

\* path.join(reportsDir, '..', '..', 'baselines')
BaselinePath(reportsDir) == PathJoin(reportsDir, <<"..", "..", "baselines">>)

\* the rubrics the evaluator may return: scores of two criteria
Rubrics == {<<2, 3>>, <<3, 3>>}
NoEvaluation == <<>>

RECURSIVE SumScores(_)
SumScores(rubric) ==
  IF rubric = <<>> THEN 0 ELSE Head(rubric) + SumScores(Tail(rubric))

LowScoreOrVisualFailure(evaluation) ==
  \/ SumScores(evaluation) < 3 * Len(evaluation)
  \/ results.failed > 0

\* overallScore < 3, overallScore the mean of the rubric scores
LowScore(evaluation) == SumScores(evaluation) < 3 * Len(evaluation)

HasScreenshotsOrNot(screenshots) == TRUE

\* this.screenshots.length > 0
HasScreenshots(screenshots) == Len(screenshots) > 0

\* the image page.screenshot captures
PageImage == ImgA

\* what one run leaves for the comparison with the next one
NoRun ==
  [screenshots |-> <<>>, evaluation |-> NoEvaluation,
   returned |-> NoEvaluation, error |-> "none", exit |-> -1,
   visual |-> "none", baselinePath |-> <<>>, summary |-> EmptyResults]

\* new TestRunner(persona) in a new process, run `run`
NewRunner(run, prev) ==
  [run |-> run, pc |-> "constructed", k |-> 1, steps |-> <<>>,
   screenshots |-> <<>>, browser |-> FALSE,
   page |-> FALSE, reportsDir |-> <<>>, files |-> {},
   evaluation |-> NoEvaluation, returned |-> NoEvaluation,
   error |-> "none", exit |-> -1, cleaned |-> FALSE,
   dir0 |-> baselineDir, baselinePath |-> <<>>, visual |-> "none",
   prev |-> prev]

\* the results without the outcome list
Summary(res) == [res EXCEPT !.comparisons = <<>>]

\* the state of the VisualRegressionTester calls
testerVars ==
  <<baselineDir, diffDir, pc, currentScreenshots, runId, idx, results, seen,
    thrown, startDir, report, lastOp>>

\* the rest of the state, which no TestRunner step touches
restVars == <<mtime, cleanup, listed, race>>

\* the working directory has no baselines yet and no run was made
InitRunner ==
  /\ baselineDir = [f \in RunnerFilenames |-> NoFile]
  /\ runner = NoRunner
  /\ listed = NoList
  /\ race = NoRace
  /\ startDir = EmptyDir
  /\ report = NoReport
  /\ mtime = [e \in DiffEntries |-> 0]
  /\ cleanup = CleanupIdle
  /\ lastOp = Op("constructor")
  /\ diffDir = {}
  /\ pc = "idle"
  /\ currentScreenshots = <<>>
  /\ runId = "p1"
  /\ idx = 1
  /\ results = EmptyResults
  /\ seen = <<>>
  /\ thrown = NoError

\* main() of a new process: new TestRunner(persona).  The first run, or
\* the second run after the first process exited; the files of the working
\* directory stay, the reports directory is a new one.
main ==
  /\ \/ runner.run = 0
     \/ runner.run = 1 /\ runner.pc = "exited"
  /\ runner' =
       NewRunner(runner.run + 1,
                 IF runner.run = 0 THEN NoRun
                 ELSE [screenshots |-> runner.screenshots,
                       evaluation |-> runner.evaluation,
                       returned |-> runner.returned,
                       error |-> runner.error, exit |-> runner.exit,
                       visual |-> runner.visual,
                       baselinePath |-> runner.baselinePath,
                       summary |-> Summary(results)])
  /\ Forget
  /\ thrown' = NoError
  /\ report' = NoReport
  /\ diffDir' = {}
  /\ lastOp' = Op("TestRunner")
  /\ UNCHANGED <<baselineDir, restVars>>

\* an error leaves the try block of main with message msg
Raise(msg) == [runner EXCEPT !.pc = "caught", !.error = msg]

\* TestRunner.setup(): mkdir of the reports directory, chromium.launch,
\* newPage; failing names the call that fails
runnerSetup(failing) ==
  /\ runner.run > 0
  /\ runner.pc = "constructed"
  /\ runner' =
       CASE failing = "none" ->
              [runner EXCEPT !.pc = "step", !.browser = TRUE,
                             !.page = TRUE,
                             !.reportsDir = ReportsDir(runner.run)]
         [] failing = "mkdir" ->
              [Raise("setup") EXCEPT !.reportsDir = ReportsDir(runner.run)]
         [] failing = "launch" ->
              [Raise("setup") EXCEPT !.reportsDir = ReportsDir(runner.run)]
         [] OTHER ->
              [Raise("setup") EXCEPT !.browser = TRUE,
                                     !.reportsDir = ReportsDir(runner.run)]
  /\ UNCHANGED <<testerVars, restVars>>

executeStepSwallow(ok) ==
  /\ runner.run > 0
  /\ runner.pc = "step"
  /\ runner' = [runner EXCEPT
       !.steps = Append(@, [stepId |-> Journey[runner.k], success |-> ok]),
       !.pc = "shot"]
  /\ UNCHANGED <<testerVars, restVars>>

\* executeStep(stepId, description, action): the record is pushed with
\* success true, or with success false and the error is thrown again;
\* executePersona throws it again to main
executeStep(ok) ==
  /\ runner.run > 0
  /\ runner.pc = "step"
  /\ runner' =
       LET logged ==
             [runner EXCEPT
                !.steps = Append(@, [stepId |-> Journey[runner.k],
                                     success |-> ok])]
       IN IF ok THEN [logged EXCEPT !.pc = "shot"]
                ELSE [logged EXCEPT !.pc = "caught", !.error = "step"]
  /\ UNCHANGED <<testerVars, restVars>>

\* takeScreenshot(name) after step k: a failure is caught and the path is
\* not pushed; then the next step, or executePersona returns and
\* generateReport starts
takeScreenshot(ok) ==
  /\ runner.run > 0
  /\ runner.pc = "shot"
  /\ runner' = [runner EXCEPT
       !.screenshots =
          IF ok THEN Append(@, [step |-> runner.k,
                                filename |->
                                  ScreenshotName(@, ShotNames[runner.k])])
                ELSE @,
       !.k = @ + 1,
       !.pc = IF runner.k = NumSteps THEN "artifacts" ELSE "step"]
  /\ UNCHANGED <<testerVars, restVars>>

\* generateReport: fs.writeFile of artifacts.json, outside the try block
writeArtifacts(ok) ==
  /\ runner.run > 0
  /\ runner.pc = "artifacts"
  /\ runner' = IF ok THEN [runner EXCEPT !.pc = "evaluate",
                                         !.files = @ \cup {"artifacts.json"}]
                     ELSE Raise("artifacts.json")
  /\ UNCHANGED <<testerVars, restVars>>

\* generateReport: evaluateProductExperience returns a rubric or raises;
\* then fs.writeFile of evaluation.json
evaluate(rubric, failing) ==
  /\ runner.run > 0
  /\ runner.pc = "evaluate"
  /\ runner' =
       CASE failing = "none" ->
              [runner EXCEPT !.pc = "evaluated", !.evaluation = rubric,
                             !.files = @ \cup {"evaluation.json"}]
         [] failing = "evaluator" -> Raise("evaluator")
         [] OTHER ->
              [Raise("evaluation.json") EXCEPT !.evaluation = rubric]
  /\ UNCHANGED <<testerVars, restVars>>

\* generateReport: if (this.screenshots.length > 0)
\*   new VisualRegressionTester(this.reportsDir)
visualBegin ==
  /\ runner.run > 0
  /\ runner.pc = "evaluated"
  /\ IF HasScreenshots(runner.screenshots)
       THEN /\ runner' = [runner EXCEPT
                 !.pc = "visual", !.visual = "started",
                 !.baselinePath = BaselinePath(runner.reportsDir)]
            /\ lastOp' = Op("constructor")
       ELSE /\ runner' = [runner EXCEPT !.pc = "markdown"]
            /\ lastOp' = lastOp
  /\ UNCHANGED <<baselineDir, diffDir, pc, currentScreenshots, runId, idx,
                 results, seen, thrown, startDir, report, restVars>>

\* the capture paths handed to compareScreenshots
ScreenshotPaths ==
  [i \in 1..Len(runner.screenshots) |->
     [content |-> PageImage,
      filename |-> runner.screenshots[i].filename]]

\* generateReport: the calls on visualTester, in their order
visualStage ==
  /\ runner.run > 0
  /\ runner.pc = "visual"
  /\ \/ /\ lastOp.op = "constructor"
        /\ \E mkdirOk \in BOOLEAN : setup(mkdirOk)
     \/ /\ lastOp.op = "setup"
        /\ thrown = NoError
        /\ Call(ScreenshotPaths, "p1")
     \/ \E copyOk \in BOOLEAN : ProcessImage(copyOk)
     \/ Return
     \/ \E writeOk \in BOOLEAN : generateVisualRegressionReport(writeOk)

\* generateReport: the visual regression block is left, by an error of
\* one of its calls or at its end
visualEnd ==
  /\ runner.run > 0
  /\ runner.pc = "visual"
  /\ thrown # NoError \/ pc = "reported"
  /\ runner' = IF thrown # NoError
                 THEN [Raise("visual") EXCEPT !.visual = "raised"]
                 ELSE [runner EXCEPT !.pc = "markdown",
                                     !.visual = "completed"]
  /\ UNCHANGED <<testerVars, restVars>>

\* generateReport: fs.writeFile of ValidationReport.md; return evaluation
writeMarkdown(ok) ==
  /\ runner.run > 0
  /\ runner.pc = "markdown"
  /\ runner' = IF ok THEN [runner EXCEPT
                             !.pc = "returned",
                             !.files = @ \cup {"ValidationReport.md"},
                             !.returned = runner.evaluation]
                     ELSE Raise("ValidationReport.md")
  /\ UNCHANGED <<testerVars, restVars>>

\* process.exit(1): the process ends there, the finally block is not run
processExit(code) == [runner EXCEPT !.pc = "exited", !.exit = code]

\* main after generateReport returned: if (overallScore < 3)
\* process.exit(1); otherwise the try block ends
mainVerdict ==
  /\ runner.run > 0
  /\ runner.pc = "returned"
  /\ runner' = IF LowScore(runner.returned) THEN processExit(1)
                                            ELSE [runner EXCEPT
                                                    !.pc = "finally"]
  /\ UNCHANGED <<testerVars, restVars>>

\* main: catch (error) { console.error; process.exit(1) }
mainCatch ==
  /\ runner.run > 0
  /\ runner.pc = "caught"
  /\ runner' = processExit(1)
  /\ UNCHANGED <<testerVars, restVars>>

\* main: finally { await runner.cleanup() }: the page and the browser are
\* closed if they exist; the process ends with status 0
mainFinally ==
  /\ runner.run > 0
  /\ runner.pc = "finally"
  /\ runner' = [runner EXCEPT !.pc = "exited", !.exit = 0,
                              !.cleaned = TRUE, !.page = FALSE,
                              !.browser = FALSE]
  /\ UNCHANGED <<testerVars, restVars>>

NextRunner ==
  \/ main
  \/ \E failing \in {"none", "mkdir", "launch", "newPage"} :
       runnerSetup(failing)
  \/ \E ok \in BOOLEAN : executeStep(ok)
  \/ \E ok \in BOOLEAN : takeScreenshot(ok)
  \/ \E ok \in BOOLEAN : writeArtifacts(ok)
  \/ \E rubric \in Rubrics :
       \E failing \in {"none", "evaluator", "evaluation.json"} :
         evaluate(rubric, failing)
  \/ visualBegin
  \/ visualStage
  \/ visualEnd
  \/ \E ok \in BOOLEAN : writeMarkdown(ok)
  \/ mainVerdict
  \/ mainCatch
  \/ mainFinally

SpecRunner == InitRunner /\ [][NextRunner]_vars

\* ----------------------------------------------------------------- types
TypeOK ==
  /\ baselineDir \in [Filenames -> Content \cup {NoFile}]
  /\ pc \in {"idle", "running", "done", "reported"}
  /\ idx \in 1..(Len(currentScreenshots) + 1)
  /\ Len(seen) = Len(results.comparisons)

\* ---------------------------------------------------------- properties
\* compareScreenshots returned its results to the caller
Returned == pc = "done" /\ thrown = NoError

\* number of outcomes of the call with status st
NumStatus(st) ==
  Cardinality({i \in 1..Len(results.comparisons) :
                 results.comparisons[i].status = st})

\* the i-th element of the call found no baseline / found one
MetNoBaseline(i) == seen[i].had = NoFile
MetBaseline(i) == seen[i].had # NoFile

\* C1: every summary compareScreenshots returns has
\* total = passed + failed + new, total = the number of input paths, and
\* exactly total entries in comparisons.
C1_CountersAddUp ==
  Returned =>
    /\ results.total = results.passed + results.failed + results.new
    /\ results.total = Len(currentScreenshots)
    /\ Len(results.comparisons) = results.total

\* a returned summary that mixes an adoption and a per-image failure
C1_Witness ==
  /\ Returned
  /\ results.total = 2
  /\ results.new = 1
  /\ results.failed = 1

\* C2: in every returned summary the counters match the outcome statuses:
\* new counts the 'new' outcomes, passed the 'passed' ones, and failed
\* the 'failed' ones plus the 'error' ones.
C2_CountersMatchStatuses ==
  Returned =>
    /\ results.new = NumStatus("new")
    /\ results.passed = NumStatus("passed")
    /\ results.failed = NumStatus("failed") + NumStatus("error")

\* a returned summary whose failed counter comes from an 'error' outcome
C2_Witness ==
  /\ Returned
  /\ NumStatus("error") >= 1
  /\ NumStatus("new") >= 1
  /\ results.failed = NumStatus("error")

\* the i-th outcome is the adoption of the i-th capture, and the
\* baseline of its filename holds the capture's bytes
AdoptedAt(i) ==
  LET o == results.comparisons[i]
  IN /\ o.status = "new"
     /\ PctEq(o.diffPercentage, PctZero)
     /\ o.diff = NoDiff
     /\ baselineDir[o.filename] # NoFile
     /\ baselineDir[o.filename] = ReadCapture(currentScreenshots[i])

FailedAt(i) ==
  \/ MetNoBaseline(i) /\ ~seen[i].copyOk
  \/ /\ MetBaseline(i)
     /\ ~compareImages(ReadCapture(currentScreenshots[i]), seen[i].had).ok

\* C4: a failure while processing one image never makes
\* compareScreenshots raise; it is recorded as that image's outcome with
\* status 'error', diffPercentage 100 and the error message, and every
\* later image of the input list still gets its own outcome.
C4_FailureIsRecorded ==
  /\ pc \in {"running", "done"} => thrown = NoError
  /\ \A i \in 1..Len(results.comparisons) :
       /\ results.comparisons[i].current = currentScreenshots[i]
       /\ FailedAt(i) =>
            /\ results.comparisons[i].status = "error"
            /\ PctEq(results.comparisons[i].diffPercentage, PctHundred)
            /\ results.comparisons[i].error # NoError
  /\ pc = "done" => Len(results.comparisons) = Len(currentScreenshots)

\* the first image failed and the second one was still adopted
C4_Witness ==
  /\ Returned
  /\ Len(results.comparisons) = 2
  /\ FailedAt(1)
  /\ results.comparisons[1].status = "error"
  /\ results.comparisons[2].status = "new"

\* the i-th capture and the baseline it met are PNG images
BothDecode(i) ==
  /\ MetBaseline(i)
  /\ seen[i].had.kind = "png"
  /\ ReadCapture(currentScreenshots[i]).kind = "png"

SameDimensions(i) ==
  /\ ReadCapture(currentScreenshots[i]).w = seen[i].had.w
  /\ ReadCapture(currentScreenshots[i]).h = seen[i].had.h

\* diffPixels / (width * height) * 100 for the i-th capture and the
\* baseline it met
ExpectedPct(i) ==
  LET cur == ReadCapture(currentScreenshots[i])
  IN Pct(pixelmatch(cur, seen[i].had, cur.w, cur.h).n * 100, cur.w * cur.h)

\* C5: an image compared against an existing baseline of the same
\* dimensions gets diffPercentage = diffPixels / (width*height) * 100, in
\* 0..100, and status 'passed' exactly when diffPercentage < 5, otherwise
\* 'failed' (so exactly 5 is 'failed').
C5_PassedIffBelowFive ==
  Returned =>
    \A i \in 1..Len(results.comparisons) :
      BothDecode(i) /\ SameDimensions(i) =>
        LET o == results.comparisons[i]
        IN /\ PctEq(o.diffPercentage, ExpectedPct(i))
           /\ ~PctLt(o.diffPercentage, PctZero)
           /\ ~PctLt(PctHundred, o.diffPercentage)
           /\ o.status = (IF PctLt(ExpectedPct(i), Pct(5, 1))
                            THEN "passed" ELSE "failed")

DimensionMismatch(i) == BothDecode(i) /\ ~SameDimensions(i)

\* C7: a captured image whose existing baseline differs from it in width
\* or in height is recorded with status 'error' and diffPercentage 100,
\* and the run continues with the remaining images.
C7_DimensionMismatchIsError ==
  /\ pc \in {"running", "done"} => thrown = NoError
  /\ pc = "done" => Len(results.comparisons) = Len(currentScreenshots)
  /\ \A i \in 1..Len(results.comparisons) :
       DimensionMismatch(i) =>
         /\ results.comparisons[i].status = "error"
         /\ PctEq(results.comparisons[i].diffPercentage, PctHundred)

\* a 5x8 / 8x5 pair was met first and the next image was still processed
C7_Witness ==
  /\ Returned
  /\ Len(results.comparisons) = 2
  /\ DimensionMismatch(1)
  /\ results.comparisons[1].status = "error"

\* C8: a capture that is a corrupted or non-image file is recorded with
\* status 'error' and diffPercentage 100, whether or not a baseline
\* exists for its filename, and the call goes on.
C8_CorruptCaptureIsError ==
  Returned =>
    \A i \in 1..Len(results.comparisons) :
      ReadCapture(currentScreenshots[i]).kind = "junk" =>
        /\ results.comparisons[i].status = "error"
        /\ PctEq(results.comparisons[i].diffPercentage, PctHundred)

CountedFailedAt(i) ==
  /\ MetBaseline(i)
  /\ results.comparisons[i].status \in {"failed", "error"}

C11_OutcomesInInputOrder ==
  /\ [](pc = "running" => idx = Len(results.comparisons) + 1)
  /\ [](\A i \in 1..Len(results.comparisons) :
          /\ i <= Len(currentScreenshots)
          /\ results.comparisons[i].current = currentScreenshots[i]
          /\ results.comparisons[i].filename
               = basename(currentScreenshots[i]))
  /\ [][pc = "running" =>
          /\ Len(results'.comparisons) <= Len(results.comparisons) + 1
          /\ \A i \in 1..Len(results.comparisons) :
               results'.comparisons[i] = results.comparisons[i]]_vars

\* two different captures were processed and returned in input order
C11_Witness ==
  /\ Returned
  /\ Len(results.comparisons) = 2
  /\ currentScreenshots[1] # currentScreenshots[2]
  /\ results.comparisons[1].current = currentScreenshots[1]
  /\ results.comparisons[2].current = currentScreenshots[2]

\* the outcome the i-th input path would get against the baseline
\* directory as it was when the call started
OutcomeAtStart(i) ==
  LoopBody(startDir, currentScreenshots[i], runId, seen[i].copyOk).outcome

\* no earlier input path of the call has the basename of the i-th one
FirstOfItsName(i) ==
  \A j \in 1..(i - 1) :
    basename(currentScreenshots[j]) # basename(currentScreenshots[i])

\* C12 as stated: the outcome recorded for an input path depends only on
\* that capture and on the baseline stored for its filename when the call
\* started, whatever the other paths of the list are, also when several
\* paths share a basename.
C12_OutcomesIndependent ==
  Returned =>
    \A i \in 1..Len(results.comparisons) :
      results.comparisons[i] = OutcomeAtStart(i)

\* C12 amended: this holds for the input paths that are the first of the
\* list with their basename.
C12_FirstOfNameIndependent ==
  Returned =>
    \A i \in 1..Len(results.comparisons) :
      FirstOfItsName(i) => results.comparisons[i] = OutcomeAtStart(i)

\* an image failed against its baseline and the next one, of another
\* name, was adopted all the same
C12_Witness ==
  /\ Returned
  /\ Len(results.comparisons) = 2
  /\ basename(currentScreenshots[1]) # basename(currentScreenshots[2])
  /\ MetBaseline(1)
  /\ results.comparisons[1].status = "error"
  /\ MetNoBaseline(2)
  /\ results.comparisons[2].status = "new"

\* the capture with the bytes `bytes` at a path whose basename is f
CaptureNamed(bytes, f) == [content |-> bytes, filename |-> f]

\* C13: re-running compareScreenshots on a capture that was adopted as
\* baseline, the capture file unchanged, classifies it 'passed' with
\* diffPercentage 0 and writes no diff artifact.
C13_RerunOfAdoptedPasses ==
  Returned =>
    \A i \in 1..Len(results.comparisons) :
      /\ MetBaseline(i)
      /\ seen[i].had = ReadCapture(currentScreenshots[i])
      /\ seen[i].had.kind = "png"
      => /\ results.comparisons[i].status = "passed"
         /\ PctEq(results.comparisons[i].diffPercentage, PctZero)
         /\ results.comparisons[i].diff = NoDiff

\* C14: updateBaseline(path, filename) stores the capture under filename
\* whether or not a baseline exists, leaves the other baselines alone, a
\* second call with the same capture changes nothing, and comparing that
\* capture afterwards yields 'passed'.
C14_UpdateThenPassed ==
  [][\A s \in Captures, f \in Filenames :
       updateBaseline(s, f, TRUE) =>
         /\ baselineDir'[f] = ReadCapture(s)
         /\ \A g \in Filenames \ {f} : baselineDir'[g] = baselineDir[g]
         /\ copyFile(baselineDir', s, f) = baselineDir'
         /\ thrown' = NoError
         /\ ReadCapture(s).kind = "png" =>
              \A rid \in RunIds :
                LoopBody(baselineDir', CaptureNamed(ReadCapture(s), f),
                         rid, TRUE).outcome.status = "passed"]_vars

\* what deleteBaseline(f) does to the baseline directory and its caller
DeleteEffect(f) ==
  /\ thrown' = NoError
  /\ baselineDir'[f] = NoFile
  /\ \A g \in Filenames \ {f} : baselineDir'[g] = baselineDir[g]
  /\ baselineDir[f] = NoFile => baselineDir' = baselineDir

CleanupReturned == cleanup.pc = "done"

\* entry e was last modified more than maxAge before the call
OlderThanMaxAge(e) ==
  /\ ~cleanup.maxAge.inf
  /\ cleanup.now - mtime[e] > cleanup.maxAge.ms

\* the entries the scan went through before it ended
Scanned ==
  {cleanup.files[j] : j \in 1..(cleanup.i - 1)} \cap cleanup.dir0

\* C16 as stated: after cleanupOldDiffs(maxAge) returns, no entry older
\* than maxAge remains in the diff directory and every entry not older is
\* still there, also when readdir, stat or unlink failed.
C16_OlderRemovedOthersKept ==
  CleanupReturned =>
    \A e \in cleanup.dir0 : (e \in diffDir) <=> ~OlderThanMaxAge(e)

\* C16 amended: an entry not older than maxAge is always kept; the older
\* entries are all removed when no readdir, stat or unlink fails; at the
\* first failure the scan ends, so the older entries listed before it are
\* removed and every entry from the failing one on stays.
C16_ScanEndsAtFirstFailure ==
  CleanupReturned =>
    /\ diffDir \subseteq cleanup.dir0
    /\ \A e \in cleanup.dir0 : ~OlderThanMaxAge(e) => e \in diffDir
    /\ ~cleanup.caught =>
         \A e \in cleanup.dir0 : OlderThanMaxAge(e) => e \notin diffDir
    /\ cleanup.caught =>
         /\ \A e \in Scanned : OlderThanMaxAge(e) => e \notin diffDir
         /\ \A e \in cleanup.dir0 \ Scanned : e \in diffDir

\* a scan removed an old entry, then failed and left another old entry
C16_Witness ==
  /\ CleanupReturned
  /\ cleanup.caught
  /\ \E e \in cleanup.dir0 : OlderThanMaxAge(e) /\ e \notin diffDir
  /\ \E e \in cleanup.dir0 : OlderThanMaxAge(e) /\ e \in diffDir

\* C17: cleanupOldDiffs(0) deletes every diff artifact, one modified at
\* the current time included, and cleanupOldDiffs(Infinity) deletes none
\* (for a scan in which no readdir, stat or unlink fails).
C17_ZeroDeletesAllInfinityNone ==
  CleanupReturned /\ ~cleanup.caught =>
    /\ cleanup.maxAge = MaxAge(0) =>
         \A e \in cleanup.dir0 : mtime[e] <= cleanup.now => e \notin diffDir
    /\ cleanup.maxAge = Infinity => diffDir = cleanup.dir0

\* C18: cleanupOldDiffs never raises to its caller, whatever fails, and
\* it changes neither the baselines nor the report; in the diff directory
\* it only removes entries.
C18_CleanupNeverRaises ==
  /\ [](lastOp.op = "cleanupOldDiffs" => thrown = NoError)
  /\ [][/\ baselineDir' = baselineDir
         /\ report' = report
         /\ diffDir' \subseteq diffDir]_vars

\* a scan that failed returned, next to a baseline and a report
C18_Witness ==
  /\ CleanupReturned
  /\ cleanup.caught
  /\ lastOp.op = "cleanupOldDiffs"
  /\ cleanup.dir0 # {}
  /\ baselineDir["a.png"] # NoFile
  /\ report.written

\* C19: an I/O failure of a structural operation is raised to the caller:
\* mkdir in setup, the copy into the baseline directory (first-sight
\* adoption in compareScreenshots, and updateBaseline), and the write of
\* the report file.
C19_StructuralFailurePropagates ==
  [][/\ setup(FALSE) => thrown' # NoError
     /\ \A s \in Captures, f \in Filenames :
          updateBaseline(s, f, FALSE) => thrown' # NoError
     /\ generateVisualRegressionReport(FALSE) => thrown' # NoError
     /\ (/\ ProcessImage(FALSE)
         /\ baselineDir[basename(currentScreenshots[idx])] = NoFile)
        => thrown' # NoError]_vars

\* C20 as stated: a comparison against an existing baseline that ends in
\* status 'error' has a diff artifact at the path of run id + filename.
C20_ErrorPersistsDiff ==
  \A i \in 1..Len(results.comparisons) :
    MetBaseline(i) /\ results.comparisons[i].status = "error"
    => /\ results.comparisons[i].diff
           = DiffPath(runId, results.comparisons[i].filename)
       /\ DiffPath(runId, results.comparisons[i].filename) \in diffDir

\* C20 amended: a comparison against an existing baseline that ends in
\* status 'error' records no diff (null) and writes no diff artifact.
C20_ErrorHasNoDiff ==
  \A i \in 1..Len(results.comparisons) :
    MetBaseline(i) /\ results.comparisons[i].status = "error"
    => /\ results.comparisons[i].diff = NoDiff
       /\ DiffPath(runId, results.comparisons[i].filename) \notin diffDir

\* a call returned two 'error' outcomes of comparisons against baselines
C20_Witness ==
  /\ Returned
  /\ Len(results.comparisons) = 2
  /\ \A i \in 1..2 :
       /\ MetBaseline(i)
       /\ results.comparisons[i].status = "error"
       /\ results.comparisons[i].diffPercentage = PctHundred
  /\ diffDir = {}

\* generateVisualRegressionReport wrote the report of the call's results
ReportWritten == pc = "reported" /\ thrown = NoError /\ report.written

\* C21: the report has the review paragraph exactly when failed > 0, the
\* new-baselines paragraph exactly when new > 0 and the match paragraph
\* exactly when passed > 0; outcomes that are all 'error' give the review
\* paragraph alone.
C21_ParagraphsFollowCounters ==
  ReportWritten =>
    /\ ("review" \in report.paragraphs) <=> (results.failed > 0)
    /\ ("new" \in report.paragraphs) <=> (results.new > 0)
    /\ ("match" \in report.paragraphs) <=> (results.passed > 0)
    /\ (/\ results.comparisons # <<>>
        /\ \A i \in 1..Len(results.comparisons) :
             results.comparisons[i].status = "error")
       => report.paragraphs = {"review"}

\* a report of outcomes that are all 'error'
C21_Witness ==
  /\ ReportWritten
  /\ Len(results.comparisons) = 2
  /\ \A i \in 1..2 : results.comparisons[i].status = "error"
  /\ report.paragraphs = {"review"}

\* C22: generateVisualRegressionReport writes a report for every summary
\* compareScreenshots returns, the empty one and the all-error one
\* included: one table row per outcome, in outcome order, and the counts
\* of the summary.
C22_ReportReflectsSummary ==
  /\ pc = "reported" /\ thrown = NoError => report.written
  /\ ReportWritten =>
       /\ Len(report.rows) = Len(results.comparisons)
       /\ \A i \in 1..Len(results.comparisons) :
            /\ report.rows[i].filename = results.comparisons[i].filename
            /\ (report.rows[i].status = "warning")
                 <=> (results.comparisons[i].status = "error")
            /\ (report.rows[i].status = "camera")
                 <=> (results.comparisons[i].status = "new")
       /\ report.total = results.total
       /\ report.total = Len(results.comparisons)
       /\ report.passed = results.passed
       /\ report.failed = results.failed
       /\ report.new = results.new

\* a report of a 'new' outcome followed by an 'error' outcome
C22_Witness ==
  /\ ReportWritten
  /\ Len(report.rows) = 2
  /\ report.rows[1].status = "camera"
  /\ report.rows[2].status = "warning"
  /\ report.failed = 1

\* the report of an empty summary
C22_WitnessEmpty ==
  /\ ReportWritten
  /\ report.total = 0
  /\ report.rows = <<>>

\* the cell shows percentage p in hundredths, rounded to the nearest
ShowsTwoDecimals(cell, p) ==
  /\ ~cell.na
  /\ Len(cell.value) = 1
  /\ cell.value[1] \in 0..10000
  /\ 2 * Abs(cell.value[1] * p.den - 100 * p.num) <= p.den

\* C30: the Diff % cell is 'N/A' exactly when diffPercentage is 0 and
\* otherwise the percentage with 2 decimals (100.00% on an 'error' row);
\* the Diff link cell is 'N/A' exactly when diff is null.
C30_CellsShowNA ==
  ReportWritten =>
    \A i \in 1..Len(results.comparisons) :
      LET o == results.comparisons[i]
          row == report.rows[i]
      IN /\ row.diffPercent.na <=> (o.diffPercentage.num = 0)
         /\ o.diffPercentage.num # 0
              => ShowsTwoDecimals(row.diffPercent, o.diffPercentage)
         /\ o.status = "new" => row.diffPercent.na
         /\ o.status = "error" => row.diffPercent.value = <<10000>>
         /\ row.diff.na <=> (o.diff = NoDiff)

\* a report with an 'error' row showing 100.00% before a 'new' row
C30_Witness ==
  /\ ReportWritten
  /\ Len(report.rows) = 2
  /\ results.comparisons[1].status = "error"
  /\ ~report.rows[1].diffPercent.na
  /\ results.comparisons[2].status = "new"
  /\ report.rows[2].diffPercent.na
  /\ report.rows[2].diff.na

\* C23: getBaselineList returns exactly the filenames that have a
\* baseline, for every filename adoption or updateBaseline can store (a
\* filename is listed iff fileExists finds its baseline), and returns an
\* empty list without raising when the directory cannot be read.
C23_ListIsExactlyTheBaselines ==
  lastOp.op = "getBaselineList" =>
    /\ thrown = NoError
    /\ lastOp.existed =>
         \A f \in DOMAIN baselineDir :
           (f \in listed.files) <=> (baselineDir[f] # NoFile)
    /\ ~lastOp.existed => listed.files = {}

\* both interleaved runs processed their capture
BothDone == race.started /\ \A r \in Runs : race.runs[r].pc = "done"

\* the filename both runs process
RaceName == basename(race.runs[1].screenshot)

\* C25 as stated: when two runs interleave on a filename without baseline,
\* check and copy behave atomically: exactly one run classifies 'new', and
\* a baseline one run wrote is never overwritten by the other.
C25_CheckAndCopyAtomic ==
  BothDone /\ (\A r \in Runs : race.runs[r].copyOk) =>
    /\ Cardinality({r \in Runs : race.runs[r].status = "new"}) = 1
    /\ Len(race.order) = 1
    /\ baselineDir[RaceName] = ReadCapture(race.runs[race.order[1]].screenshot)

\* C25 amended: check and copy are two steps.  A run classifies 'new'
\* exactly when its own check found no baseline and its copy succeeded, so
\* both runs may classify 'new'; the baseline left is the capture of the
\* run that copied last; a run finds a baseline only after the other run's
\* copy.
C25_CheckThenCopy ==
  BothDone =>
    /\ \A r \in Runs :
         (race.runs[r].status = "new")
           <=> (~race.runs[r].exists /\ race.runs[r].copyOk)
    /\ \E r \in Runs : ~race.runs[r].exists
    /\ \A r \in Runs :
         race.runs[r].exists => race.order = <<CHOOSE q \in Runs : q # r>>
    /\ race.order # <<>> =>
         baselineDir[RaceName]
           = ReadCapture(race.runs[race.order[Len(race.order)]].screenshot)
    /\ race.order = <<>> => baselineDir[RaceName] = NoFile

\* both runs classified 'new' and the second copy replaced the first
C25_Witness ==
  /\ BothDone
  /\ \A r \in Runs : race.runs[r].status = "new"
  /\ race.order = <<2, 1>>
  /\ ReadCapture(race.runs[1].screenshot)
       # ReadCapture(race.runs[2].screenshot)
  /\ baselineDir[RaceName] = ReadCapture(race.runs[1].screenshot)

\* a TestRunner exists
Constructed == runner.run > 0

\* the last step record is a failed one
LastStepFailed ==
  /\ runner.steps # <<>>
  /\ ~runner.steps[Len(runner.steps)].success

\* C26: executePersona stops at the first failing step: one record per
\* executed step, in execution order, all but possibly the last with
\* success true; after a failed step no step runs and no screenshot is
\* taken; a screenshot that is not captured stops nothing and is only
\* missing from the screenshots list.
C26_StopsAtFirstFailedStep ==
  /\ [](Constructed =>
         /\ Len(runner.steps) <= NumSteps
         /\ \A i \in 1..Len(runner.steps) :
              /\ runner.steps[i].stepId = Journey[i]
              /\ i < Len(runner.steps) => runner.steps[i].success
         /\ \A j \in 1..Len(runner.screenshots) :
              /\ runner.screenshots[j].step <= Len(runner.steps)
              /\ runner.steps[runner.screenshots[j].step].success
              /\ j > 1 => runner.screenshots[j - 1].step
                            < runner.screenshots[j].step
         /\ LastStepFailed =>
              /\ runner.pc \in {"caught", "exited"}
              /\ runner.error = "step"
         /\ runner.pc \notin {"constructed", "step", "shot"}
              /\ runner.error \notin {"setup", "step"}
              => /\ Len(runner.steps) = NumSteps
                 /\ \A i \in 1..NumSteps : runner.steps[i].success)
  /\ [][Constructed /\ LastStepFailed /\ runner'.run = runner.run
          => /\ runner'.steps = runner.steps
             /\ runner'.screenshots = runner.screenshots]_vars

\* the first screenshot was not captured, the second step ran and failed
C26_Witness ==
  /\ Constructed
  /\ runner.pc = "exited"
  /\ Len(runner.steps) = 2
  /\ runner.steps[1].success
  /\ ~runner.steps[2].success
  /\ runner.screenshots = <<>>

\* C27: in generateReport the visual regression stage (setup, then
\* compareScreenshots, then the visual report) runs only after the
\* evaluation returned and evaluation.json is written, and only with at
\* least one screenshot; if the evaluator raises no baseline is adopted
\* and no visual report is written; if the visual stage raises,
\* ValidationReport.md is not written.
C27_VisualStageAfterEvaluation ==
  /\ [](Constructed =>
         /\ runner.visual # "none" =>
              /\ runner.evaluation # NoEvaluation
              /\ "evaluation.json" \in runner.files
              /\ Len(runner.screenshots) > 0
         /\ lastOp.op \in {"constructor", "setup", "compareScreenshots",
                           "generateVisualRegressionReport"}
              => runner.visual # "none"
         /\ runner.error \in {"evaluator", "evaluation.json"} =>
              /\ runner.visual = "none"
              /\ baselineDir = runner.dir0
              /\ ~report.written
         /\ runner.error = "visual" =>
              /\ "ValidationReport.md" \notin runner.files
              /\ runner.returned = NoEvaluation)
  /\ [][lastOp'.op # lastOp.op =>
          /\ lastOp'.op = "setup" => lastOp.op = "constructor"
          /\ lastOp'.op = "compareScreenshots" =>
               lastOp.op = "setup" /\ thrown = NoError
          /\ lastOp'.op = "generateVisualRegressionReport" =>
               /\ lastOp.op = "compareScreenshots"
               /\ pc = "done"
               /\ thrown = NoError]_vars

\* the visual stage adopted a baseline, then raised: no ValidationReport.md
C27_Witness ==
  /\ Constructed
  /\ runner.pc = "exited"
  /\ runner.error = "visual"
  /\ baselineDir # runner.dir0
  /\ "evaluation.json" \in runner.files

\* C28: on every termination path of the CLI after the TestRunner was
\* constructed, runner.cleanup() runs and the page and the browser are
\* closed before the process exits.
C28_CleanupOnEveryPath ==
  Constructed /\ runner.pc = "exited" =>
    /\ runner.cleaned
    /\ ~runner.page
    /\ ~runner.browser

\* C29: when the visual regression stage completes without raising, its
\* result does not influence the verdict: generateReport returns the
\* evaluator's evaluation, the exit status is nonzero exactly when an
\* error was raised or the mean rubric score is below 3, and two runs that
\* differ only in the visual summary exit alike.
C29_VisualResultNotInVerdict ==
  Constructed /\ runner.pc = "exited" =>
    /\ (runner.exit # 0) <=>
         \/ runner.error # "none"
         \/ SumScores(runner.returned) < 3 * Len(runner.returned)
    /\ runner.exit \in {0, 1}
    /\ runner.error = "none" => runner.returned = runner.evaluation
    /\ (/\ runner.run = 2
        /\ runner.visual = "completed"
        /\ runner.prev.visual = "completed"
        /\ runner.prev.evaluation = runner.evaluation
        /\ runner.prev.error = runner.error)
       => /\ runner.prev.exit = runner.exit
          /\ runner.prev.returned = runner.returned

\* two runs with the same evaluation, the first all 'new' and the second
\* all 'error', both exit with status 0
C29_Witness ==
  /\ Constructed
  /\ runner.pc = "exited"
  /\ runner.run = 2
  /\ runner.visual = "completed"
  /\ runner.prev.visual = "completed"
  /\ runner.prev.evaluation = runner.evaluation
  /\ runner.prev.summary.new > 0 /\ runner.prev.summary.failed = 0
  /\ results.failed > 0 /\ results.new = 0
  /\ runner.exit = 0
  /\ runner.prev.exit = 0

\* C24: when the journey is run twice from the same working directory,
\* both runs resolve the same baseline directory and a step's screenshot
\* captured in both runs has the same filename in both, so the second run
\* compares it against the first run's baseline and never classifies it
\* 'new', also when another step's screenshot is not captured in one run.
C24_ComparedAcrossRuns ==
  /\ Constructed
  /\ runner.run = 2
  /\ runner.prev.visual = "completed"
  /\ runner.visual # "none"
  => /\ runner.baselinePath = runner.prev.baselinePath
     /\ pc \in {"done", "reported"} /\ thrown = NoError =>
          \A i \in 1..Len(runner.screenshots) :
            \A j \in 1..Len(runner.prev.screenshots) :
              /\ runner.screenshots[i].step = runner.prev.screenshots[j].step
              /\ startDir[runner.prev.screenshots[j].filename] # NoFile
              => /\ runner.screenshots[i].filename
                      = runner.prev.screenshots[j].filename
                 /\ results.comparisons[i].status # "new"

====
